---- MODULE Spec2Model ----
(***************************************************************************)
(* Model of package graph (src/graph/graph.go): the MessageGraph builder,  *)
(* Compile, and the traversal loop of Runnable.Invoke.                     *)
(*                                                                         *)
(* The builder fields are the variables nodes, edges and entryPoint.  A    *)
(* Runnable holds a pointer to the MessageGraph it was compiled from, so   *)
(* Invoke reads those same variables.  Invoke is modelled step by step:    *)
(* one action per statement group of its loop, with the goroutine's        *)
(* position in pc and its locals in state, currentNode and node.           *)
(***************************************************************************)
EXTENDS Integers, Sequences, FiniteSets, TLC

\* ------------------------------------------------------------------------
\* Bounds
\* ------------------------------------------------------------------------

\* Largest number of edges AddEdge is let to register.
MaxEdges == 2

\* Largest number of node-function calls followed within one Invoke.
MaxCalls == 4

\* ------------------------------------------------------------------------
\* Program constants and input sets
\* ------------------------------------------------------------------------

END == "END"

\* errors.New(text): an error with a message and nothing wrapped.
ErrorsNew(text) == [Text |-> text, Name |-> "", Wraps |-> << >>]

\* fmt.Errorf(format, ...) with one %s operand name and one %w operand
\* wrapped: the message is the format filled in, and the error wraps wrapped.
Errorf(format, name, wrapped) == [Text |-> format, Name |-> name, Wraps |-> <<wrapped>>]

ErrEntryPointNotSet == ErrorsNew("entry point not set")

ErrNodeNotFound == ErrorsNew("node not found")

ErrNoOutgoingEdge == ErrorsNew("no outgoing edge found for node")

\* The error the failing node function of the tests returns.
NodeFailure == ErrorsNew("node error")

\* The nil error, the nil *Runnable and the nil []llms.MessageContent.
NoError == [Text |-> "nil", Name |-> "", Wraps |-> << >>]

NilRunnable == "nil"

NilState == << >>

\* llms.TextParts(role, text)
TextParts(role, text) == [Role |-> role, Text |-> text]

\* context.Background(), and a context whose cancel function was called.
Background == "background"

Cancelled == "cancelled"

\* context.Canceled, what ctx.Err() returns on a cancelled context.
ContextCanceled == ErrorsNew("context canceled")

\* The goroutines that may call Invoke; the tests' caller is MainGoroutine.
Goroutines == {"g1", "g2"}

MainGoroutine == "g1"

\* Node names used by the tests and the example.
NodeNames == {"node1", "node2", "calculator", END}

\* The node functions of the tests and the example, by what they do.
NodeFunctions ==
    {"appendNode1", "appendNode2", "appendUseCalculator", "appendCalculator",
     "identity", "nodeError"}

\* Node functions a caller may register besides those: one returning the
\* engine's own ErrNodeNotFound, one returning an error that wraps
\* ErrNoOutgoingEdge, and one that returns ctx.Err() when ctx is cancelled.
CallerFunctions == {"returnsErrNodeNotFound", "wrapsErrNoOutgoingEdge", "honoursCancel"}

\* A node function applied to a state: the pair (state, error) it returns.
Apply(fn, s) ==
    CASE fn = "appendNode1" ->
           [state |-> Append(s, TextParts("ai", "Node 1")), err |-> NoError]
      [] fn = "appendNode2" ->
           [state |-> Append(s, TextParts("ai", "Node 2")), err |-> NoError]
      [] fn = "appendUseCalculator" ->
           [state |-> Append(s, TextParts("ai", "function calling: use calculator")),
            err |-> NoError]
      [] fn = "appendCalculator" ->
           [state |-> Append(s, TextParts("tool", "1+1=2")), err |-> NoError]
      [] fn = "identity" ->
           [state |-> s, err |-> NoError]
      [] fn = "nodeError" ->
           [state |-> NilState, err |-> NodeFailure]
      [] fn = "returnsErrNodeNotFound" ->
           [state |-> NilState, err |-> ErrNodeNotFound]
      [] fn = "wrapsErrNoOutgoingEdge" ->
           [state |-> NilState, err |-> Errorf("lookup failed: %w", "", ErrNoOutgoingEdge)]
      [] fn = "honoursCancel" ->
           [state |-> s, err |-> NoError]

\* node.Function(ctx, state): only honoursCancel looks at ctx.
NodeCall(fn, c, s) ==
    IF fn = "honoursCancel" /\ c = Cancelled
    THEN [state |-> NilState, err |-> ContextCanceled]
    ELSE Apply(fn, s)

\* The (name, function) pairs AddNode is called with.
NodeInputs ==
    {<<"node1", "appendNode1">>, <<"node1", "appendUseCalculator">>,
     <<"node1", "nodeError">>,
     <<"node2", "appendNode2">>,
     <<"calculator", "appendCalculator">>,
     <<END, "identity">>, <<END, "nodeError">>}

\* The (from, to) pairs AddEdge is called with.
EdgeInputs ==
    {<<"node1", "node2">>, <<"node1", END>>, <<"node2", END>>,
     <<"node2", "node1">>, <<"calculator", END>>, <<END, "node1">>}

\* The names SetEntryPoint is called with.
EntryInputs == NodeNames \cup {""}

\* The input messages Invoke is called with.
InputMessages ==
    {<<TextParts("human", "Input")>>, <<TextParts("human", "what is 1+1?")>>}

\* ------------------------------------------------------------------------
\* State
\* ------------------------------------------------------------------------

VARIABLES
    nodes,        \* MessageGraph.nodes: map from name to Node
    edges,        \* MessageGraph.edges: slice of Edge
    entryPoint,   \* MessageGraph.entryPoint
    compileRet,   \* what the last Compile returned: (runnable, err)
    runnable,     \* the *Runnable the caller keeps from a Compile that
                  \* succeeded: nil until one does
    pc,           \* per goroutine: position inside Invoke
    messages,     \* per goroutine: Invoke's argument
    state,        \* per goroutine: Invoke's local state
    currentNode,  \* per goroutine: Invoke's local currentNode
    node,         \* per goroutine: Invoke's local node
    calls,        \* per goroutine: the node-function calls made so far
    ret,          \* per goroutine: what Invoke returned: (state, err)
    ctx,          \* per goroutine: Invoke's argument ctx
    lastCall,     \* the builder call made last, when it was AddNode or
                  \* SetEntryPoint, with its arguments
    onEntry       \* per goroutine: the graph as it stood when Invoke was
                  \* called, and whether a builder call was made since,
                  \* before Invoke returned

graph == <<nodes, edges, entryPoint>>

invocation == <<pc, messages, state, currentNode, node, calls, ret, ctx>>

vars == <<nodes, edges, entryPoint, compileRet, runnable,
          pc, messages, state, currentNode, node, calls, ret, ctx, lastCall,
          onEntry>>

\* Node{Name, Function}
Node(name, fn) == [Name |-> name, Function |-> fn]

\* Edge{From, To}
Edge(from, to) == [From |-> from, To |-> to]

\* The zero Node, the value of node before the first map lookup.
ZeroNode == Node("", "nil")

NoReturn == [state |-> NilState, err |-> NoError]

\* The record of a builder call; lastCall is NoCall after any call other
\* than AddNode and SetEntryPoint.
Called(op, name, fn) == [op |-> op, name |-> name, fn |-> fn]

NoCall == Called("", "", "")

\* No goroutine is inside Invoke or holds an unconsumed result.
AllIdle == \A i \in Goroutines : pc[i] = "idle"

\* The graph behind the pointer r.graph, as a value.
GraphNow == [nodes |-> nodes, edges |-> edges, entryPoint |-> entryPoint]

\* onEntry of a goroutine that is not inside Invoke.
NoEntry ==
    [graph |-> [nodes |-> [n \in {} |-> ZeroNode], edges |-> << >>,
                entryPoint |-> ""],
     builderCalls |-> FALSE]

\* onEntry after a builder call: it is noted for every Invoke that is
\* running.
BuilderCalled ==
    [i \in Goroutines |->
        IF pc[i] \in {"lookup", "call", "edge"}
        THEN [onEntry[i] EXCEPT !.builderCalls = TRUE]
        ELSE onEntry[i]]

\* NewMessageGraph()
Init ==
    /\ nodes = [n \in {} |-> ZeroNode]
    /\ edges = << >>
    /\ entryPoint = ""
    /\ compileRet = [runnable |-> NilRunnable, err |-> NoError]
    /\ runnable = NilRunnable
    /\ pc = [i \in Goroutines |-> "idle"]
    /\ messages = [i \in Goroutines |-> NilState]
    /\ state = [i \in Goroutines |-> NilState]
    /\ currentNode = [i \in Goroutines |-> ""]
    /\ node = [i \in Goroutines |-> ZeroNode]
    /\ calls = [i \in Goroutines |-> << >>]
    /\ ret = [i \in Goroutines |-> NoReturn]
    /\ ctx = [i \in Goroutines |-> Background]
    /\ lastCall = NoCall
    /\ onEntry = [i \in Goroutines |-> NoEntry]

\* ------------------------------------------------------------------------
\* Builder operations
\* ------------------------------------------------------------------------

\* AddNode keeping the node already registered under name.
AddNode_KeepsFirst(name, fn) ==
    /\ nodes' = IF name \in DOMAIN nodes THEN nodes
                ELSE [n \in (DOMAIN nodes) \cup {name} |->
                        IF n = name THEN Node(name, fn) ELSE nodes[n]]
    /\ lastCall' = Called("AddNode", name, fn)
    /\ onEntry' = BuilderCalled
    /\ UNCHANGED <<edges, entryPoint, compileRet, runnable, invocation>>

\* g.nodes[name] = Node{Name: name, Function: fn}
AddNode(name, fn) ==
    /\ nodes' = [n \in (DOMAIN nodes) \cup {name} |->
                    IF n = name THEN Node(name, fn) ELSE nodes[n]]
    /\ lastCall' = Called("AddNode", name, fn)
    /\ onEntry' = BuilderCalled
    /\ UNCHANGED <<edges, entryPoint, compileRet, runnable, invocation>>

\* AddEdge putting the new edge in front of the slice.
AddEdge_Prepend(from, to) ==
    /\ Len(edges) < MaxEdges
    /\ edges' = <<Edge(from, to)>> \o edges
    /\ lastCall' = NoCall
    /\ onEntry' = BuilderCalled
    /\ UNCHANGED <<nodes, entryPoint, compileRet, runnable, invocation>>

\* g.edges = append(g.edges, Edge{From: from, To: to})
AddEdge(from, to) ==
    /\ Len(edges) < MaxEdges
    /\ edges' = Append(edges, Edge(from, to))
    /\ lastCall' = NoCall
    /\ onEntry' = BuilderCalled
    /\ UNCHANGED <<nodes, entryPoint, compileRet, runnable, invocation>>

\* SetEntryPoint that keeps the recorded name when given the empty string.
SetEntryPoint_IgnoresEmpty(name) ==
    /\ entryPoint' = IF name = "" THEN entryPoint ELSE name
    /\ lastCall' = Called("SetEntryPoint", name, "")
    /\ onEntry' = BuilderCalled
    /\ UNCHANGED <<nodes, edges, compileRet, runnable, invocation>>

\* g.entryPoint = name
SetEntryPoint(name) ==
    /\ entryPoint' = name
    /\ lastCall' = Called("SetEntryPoint", name, "")
    /\ onEntry' = BuilderCalled
    /\ UNCHANGED <<nodes, edges, compileRet, runnable, invocation>>

\* Compile without the entry-point check.
Compile_NoCheck ==
    /\ compileRet' = [runnable |-> "g", err |-> NoError]
    /\ runnable' = "g"
    /\ lastCall' = NoCall
    /\ UNCHANGED <<graph, invocation, onEntry>>

\* Compile: (nil, ErrEntryPointNotSet) when the entry point is empty,
\* otherwise a Runnable pointing at the graph itself. A Runnable returned
\* earlier stays with the caller when a later Compile fails.
Compile ==
    /\ compileRet' = IF entryPoint = ""
                     THEN [runnable |-> NilRunnable, err |-> ErrEntryPointNotSet]
                     ELSE [runnable |-> "g", err |-> NoError]
    /\ runnable' = IF entryPoint = "" THEN runnable ELSE "g"
    /\ lastCall' = NoCall
    /\ UNCHANGED <<graph, invocation, onEntry>>

\* ------------------------------------------------------------------------
\* Runnable.Invoke, one goroutine i
\* ------------------------------------------------------------------------

\* The scan without its break: the last matching edge wins.
FirstEdgeFrom_Last(es, name) ==
    IF \E k \in 1..Len(es) : es[k].From = name
    THEN CHOOSE k \in 1..Len(es) :
            /\ es[k].From = name
            /\ \A j \in (k + 1)..Len(es) : es[j].From # name
    ELSE 0

\* Index of the first edge whose From is name, 0 when there is none:
\* the range loop over r.graph.edges with its break.
FirstEdgeFrom(es, name) ==
    IF \E k \in 1..Len(es) : es[k].From = name
    THEN CHOOSE k \in 1..Len(es) :
            /\ es[k].From = name
            /\ \A j \in 1..(k - 1) : es[j].From # name
    ELSE 0

\* Invoke's return statement.
Return(i, s, e) ==
    /\ ret' = [ret EXCEPT ![i] = [state |-> s, err |-> e]]
    /\ pc' = [pc EXCEPT ![i] = "done"]

\* The receivers Invoke is called on: the nil *Runnable and the Runnable
\* of the graph.
Receivers == {NilRunnable, "g"}

\* state := messages; currentNode := r.graph.entryPoint, on the receiver r:
\* a Runnable the caller holds, whatever Compile returned since, or nil,
\* and then r.graph is a nil pointer dereference and the goroutine panics.
InvokeStart(i, r, c, msgs) ==
    /\ pc[i] = "idle"
    /\ r = NilRunnable \/ r = runnable
    /\ lastCall' = NoCall
    /\ IF r = NilRunnable
       THEN /\ pc' = [pc EXCEPT ![i] = "panic"]
            /\ UNCHANGED <<ctx, messages, state, currentNode, node, calls, ret,
                           onEntry>>
       ELSE /\ ctx' = [ctx EXCEPT ![i] = c]
            /\ onEntry' = [onEntry EXCEPT
                              ![i] = [graph |-> GraphNow, builderCalls |-> FALSE]]
            /\ messages' = [messages EXCEPT ![i] = msgs]
            /\ state' = [state EXCEPT ![i] = msgs]
            /\ currentNode' = [currentNode EXCEPT ![i] = entryPoint]
            /\ node' = [node EXCEPT ![i] = ZeroNode]
            /\ calls' = [calls EXCEPT ![i] = << >>]
            /\ ret' = [ret EXCEPT ![i] = NoReturn]
            /\ pc' = [pc EXCEPT ![i] = "lookup"]
    /\ UNCHANGED <<graph, compileRet, runnable>>

\* The lookup reporting the entry point instead of the name looked up.
LookupNode_ReportsEntry(i) ==
    /\ pc[i] = "lookup"
    /\ IF currentNode[i] \in DOMAIN nodes
       THEN /\ node' = [node EXCEPT ![i] = nodes[currentNode[i]]]
            /\ pc' = [pc EXCEPT ![i] = "call"]
            /\ UNCHANGED ret
       ELSE /\ Return(i, NilState, Errorf("%w: %s", entryPoint, ErrNodeNotFound))
            /\ UNCHANGED node
    /\ UNCHANGED <<graph, compileRet, runnable, messages, state, currentNode, calls, ctx, lastCall, onEntry>>

\* The lookup taking the node out of the map.
LookupNode_Deletes(i) ==
    /\ pc[i] = "lookup"
    /\ IF currentNode[i] \in DOMAIN nodes
       THEN /\ node' = [node EXCEPT ![i] = nodes[currentNode[i]]]
            /\ nodes' = [n \in (DOMAIN nodes) \ {currentNode[i]} |-> nodes[n]]
            /\ pc' = [pc EXCEPT ![i] = "call"]
            /\ UNCHANGED ret
       ELSE /\ Return(i, NilState, Errorf("%w: %s", currentNode[i], ErrNodeNotFound))
            /\ UNCHANGED <<node, nodes>>
    /\ UNCHANGED <<edges, entryPoint, compileRet, runnable, messages, state, currentNode, calls,
                   ctx, lastCall, onEntry>>

\* The lookup preceded by a check of ctx: a cancelled context ends Invoke.
LookupNode_ChecksCtx(i) ==
    /\ pc[i] = "lookup"
    /\ IF ctx[i] = Cancelled
       THEN /\ Return(i, NilState, ContextCanceled)
            /\ UNCHANGED node
       ELSE IF currentNode[i] \in DOMAIN nodes
       THEN /\ node' = [node EXCEPT ![i] = nodes[currentNode[i]]]
            /\ pc' = [pc EXCEPT ![i] = "call"]
            /\ UNCHANGED ret
       ELSE /\ Return(i, NilState, Errorf("%w: %s", currentNode[i], ErrNodeNotFound))
            /\ UNCHANGED node
    /\ UNCHANGED <<graph, compileRet, runnable, messages, state, currentNode, calls, ctx, lastCall, onEntry>>

\* The lookup with cycle detection: a name whose function already ran in
\* this invocation ends Invoke with an error.
LookupNode_DetectsCycle(i) ==
    /\ pc[i] = "lookup"
    /\ IF \E k \in 1..Len(calls[i]) : calls[i][k].name = currentNode[i]
       THEN /\ Return(i, NilState, Errorf("cycle at node %s", currentNode[i], NoError))
            /\ UNCHANGED node
       ELSE IF currentNode[i] \in DOMAIN nodes
       THEN /\ node' = [node EXCEPT ![i] = nodes[currentNode[i]]]
            /\ pc' = [pc EXCEPT ![i] = "call"]
            /\ UNCHANGED ret
       ELSE /\ Return(i, NilState, Errorf("%w: %s", currentNode[i], ErrNodeNotFound))
            /\ UNCHANGED node
    /\ UNCHANGED <<graph, compileRet, runnable, messages, state, currentNode, calls, ctx, lastCall, onEntry>>

\* node, ok := r.graph.nodes[currentNode]; if !ok { return nil, ErrNodeNotFound }
LookupNode(i) ==
    /\ pc[i] = "lookup"
    /\ IF currentNode[i] \in DOMAIN nodes
       THEN /\ node' = [node EXCEPT ![i] = nodes[currentNode[i]]]
            /\ pc' = [pc EXCEPT ![i] = "call"]
            /\ UNCHANGED ret
       ELSE /\ Return(i, NilState, Errorf("%w: %s", currentNode[i], ErrNodeNotFound))
            /\ UNCHANGED node
    /\ UNCHANGED <<graph, compileRet, runnable, messages, state, currentNode, calls, ctx, lastCall, onEntry>>

\* The call without the error return: traversal goes on after a failure.
CallFunction_IgnoresError(i) ==
    /\ pc[i] = "call"
    /\ Len(calls[i]) < MaxCalls
    /\ LET r == NodeCall(node[i].Function, ctx[i], state[i])
       IN /\ calls' = [calls EXCEPT ![i] =
                          Append(@, [name |-> currentNode[i],
                                     fn |-> node[i].Function,
                                     ctx |-> ctx[i],
                                     arg |-> state[i]])]
          /\ state' = [state EXCEPT ![i] = r.state]
          /\ IF currentNode[i] = END
             THEN Return(i, r.state, NoError)
             ELSE /\ pc' = [pc EXCEPT ![i] = "edge"]
                  /\ UNCHANGED ret
    /\ UNCHANGED <<graph, compileRet, runnable, messages, currentNode, node, ctx, lastCall, onEntry>>

\* The call without the END check: END's edges are looked up like any other.
CallFunction_NoEndCheck(i) ==
    /\ pc[i] = "call"
    /\ Len(calls[i]) < MaxCalls
    /\ LET r == NodeCall(node[i].Function, ctx[i], state[i])
       IN /\ calls' = [calls EXCEPT ![i] =
                          Append(@, [name |-> currentNode[i],
                                     fn |-> node[i].Function,
                                     ctx |-> ctx[i],
                                     arg |-> state[i]])]
          /\ state' = [state EXCEPT ![i] = r.state]
          /\ IF r.err # NoError
             THEN Return(i, NilState,
                         Errorf("error in node %s: %w", currentNode[i], r.err))
             ELSE /\ pc' = [pc EXCEPT ![i] = "edge"]
                  /\ UNCHANGED ret
    /\ UNCHANGED <<graph, compileRet, runnable, messages, currentNode, node, ctx, lastCall, onEntry>>

\* The call formatting the function's error with %v: nothing is wrapped.
CallFunction_NoWrap(i) ==
    /\ pc[i] = "call"
    /\ Len(calls[i]) < MaxCalls
    /\ LET r == NodeCall(node[i].Function, ctx[i], state[i])
       IN /\ calls' = [calls EXCEPT ![i] =
                          Append(@, [name |-> currentNode[i],
                                     fn |-> node[i].Function,
                                     ctx |-> ctx[i],
                                     arg |-> state[i]])]
          /\ state' = [state EXCEPT ![i] = r.state]
          /\ IF r.err # NoError
             THEN Return(i, NilState,
                         [Text |-> "error in node %s: %v", Name |-> currentNode[i],
                          Wraps |-> << >>])
             ELSE IF currentNode[i] = END
                  THEN Return(i, r.state, NoError)
                  ELSE /\ pc' = [pc EXCEPT ![i] = "edge"]
                       /\ UNCHANGED ret
    /\ UNCHANGED <<graph, compileRet, runnable, messages, currentNode, node, ctx, lastCall, onEntry>>

\* The call with the END check placed before the error check.
CallFunction_EndFirst(i) ==
    /\ pc[i] = "call"
    /\ Len(calls[i]) < MaxCalls
    /\ LET r == NodeCall(node[i].Function, ctx[i], state[i])
       IN /\ calls' = [calls EXCEPT ![i] =
                          Append(@, [name |-> currentNode[i],
                                     fn |-> node[i].Function,
                                     ctx |-> ctx[i],
                                     arg |-> state[i]])]
          /\ state' = [state EXCEPT ![i] = r.state]
          /\ IF currentNode[i] = END
             THEN Return(i, r.state, NoError)
             ELSE IF r.err # NoError
                  THEN Return(i, NilState,
                              Errorf("error in node %s: %w", currentNode[i], r.err))
                  ELSE /\ pc' = [pc EXCEPT ![i] = "edge"]
                       /\ UNCHANGED ret
    /\ UNCHANGED <<graph, compileRet, runnable, messages, currentNode, node, ctx, lastCall, onEntry>>

\* state, err = node.Function(ctx, state); the error return; the END check.
CallFunction(i) ==
    /\ pc[i] = "call"
    /\ Len(calls[i]) < MaxCalls
    /\ LET r == NodeCall(node[i].Function, ctx[i], state[i])
       IN /\ calls' = [calls EXCEPT ![i] =
                          Append(@, [name |-> currentNode[i],
                                     fn |-> node[i].Function,
                                     ctx |-> ctx[i],
                                     arg |-> state[i]])]
          /\ state' = [state EXCEPT ![i] = r.state]
          /\ IF r.err # NoError
             THEN Return(i, NilState,
                         Errorf("error in node %s: %w", currentNode[i], r.err))
             ELSE IF currentNode[i] = END
                  THEN Return(i, r.state, NoError)
                  ELSE /\ pc' = [pc EXCEPT ![i] = "edge"]
                       /\ UNCHANGED ret
    /\ UNCHANGED <<graph, compileRet, runnable, messages, currentNode, node, ctx, lastCall, onEntry>>

\* The scan treating a node without an edge as the end of the graph.
FindNext_FallsThrough(i) ==
    /\ pc[i] = "edge"
    /\ LET k == FirstEdgeFrom(edges, currentNode[i])
       IN IF k # 0
          THEN /\ currentNode' = [currentNode EXCEPT ![i] = edges[k].To]
               /\ pc' = [pc EXCEPT ![i] = "lookup"]
               /\ UNCHANGED ret
          ELSE /\ Return(i, state[i], NoError)
               /\ UNCHANGED currentNode
    /\ UNCHANGED <<graph, compileRet, runnable, messages, state, node, calls, ctx, lastCall, onEntry>>

\* The scan removing the edge it follows from the graph.
FindNext_ConsumesEdge(i) ==
    /\ pc[i] = "edge"
    /\ LET k == FirstEdgeFrom(edges, currentNode[i])
       IN IF k # 0
          THEN /\ currentNode' = [currentNode EXCEPT ![i] = edges[k].To]
               /\ pc' = [pc EXCEPT ![i] = "lookup"]
               /\ edges' = SubSeq(edges, 1, k - 1) \o SubSeq(edges, k + 1, Len(edges))
               /\ UNCHANGED ret
          ELSE /\ Return(i, NilState, Errorf("%w: %s", currentNode[i], ErrNoOutgoingEdge))
               /\ UNCHANGED <<currentNode, edges>>
    /\ UNCHANGED <<nodes, entryPoint, compileRet, runnable, messages, state, node, calls, ctx, lastCall, onEntry>>

\* The scan keeping one cursor for the whole Runnable: it moves the
\* currentNode of every goroutine.
FindNext_SharedCursor(i) ==
    /\ pc[i] = "edge"
    /\ LET k == FirstEdgeFrom(edges, currentNode[i])
       IN IF k # 0
          THEN /\ currentNode' = [j \in Goroutines |-> edges[k].To]
               /\ pc' = [pc EXCEPT ![i] = "lookup"]
               /\ UNCHANGED ret
          ELSE /\ Return(i, NilState, Errorf("%w: %s", currentNode[i], ErrNoOutgoingEdge))
               /\ UNCHANGED currentNode
    /\ UNCHANGED <<graph, compileRet, runnable, messages, state, node, calls, ctx, lastCall, onEntry>>

\* The scan returning the state reached so far together with the error.
FindNext_ReturnsState(i) ==
    /\ pc[i] = "edge"
    /\ LET k == FirstEdgeFrom(edges, currentNode[i])
       IN IF k # 0
          THEN /\ currentNode' = [currentNode EXCEPT ![i] = edges[k].To]
               /\ pc' = [pc EXCEPT ![i] = "lookup"]
               /\ UNCHANGED ret
          ELSE /\ Return(i, state[i], Errorf("%w: %s", currentNode[i], ErrNoOutgoingEdge))
               /\ UNCHANGED currentNode
    /\ UNCHANGED <<graph, compileRet, runnable, messages, state, node, calls, ctx, lastCall, onEntry>>

\* The scan that, finding no edge, runs the node again instead of returning.
FindNext_Retries(i) ==
    /\ pc[i] = "edge"
    /\ LET k == FirstEdgeFrom(edges, currentNode[i])
       IN IF k # 0
          THEN /\ currentNode' = [currentNode EXCEPT ![i] = edges[k].To]
               /\ pc' = [pc EXCEPT ![i] = "lookup"]
               /\ UNCHANGED ret
          ELSE /\ pc' = [pc EXCEPT ![i] = "call"]
               /\ UNCHANGED <<currentNode, ret>>
    /\ UNCHANGED <<graph, compileRet, runnable, messages, state, node, calls, ctx, lastCall, onEntry>>

\* The scan for the first edge leaving currentNode; ErrNoOutgoingEdge.
FindNext(i) ==
    /\ pc[i] = "edge"
    /\ LET k == FirstEdgeFrom(edges, currentNode[i])
       IN IF k # 0
          THEN /\ currentNode' = [currentNode EXCEPT ![i] = edges[k].To]
               /\ pc' = [pc EXCEPT ![i] = "lookup"]
               /\ UNCHANGED ret
          ELSE /\ Return(i, NilState, Errorf("%w: %s", currentNode[i], ErrNoOutgoingEdge))
               /\ UNCHANGED currentNode
    /\ UNCHANGED <<graph, compileRet, runnable, messages, state, node, calls, ctx, lastCall, onEntry>>

\* The caller is done with the values Invoke returned.
Discard(i) ==
    /\ pc[i] = "done"
    /\ pc' = [pc EXCEPT ![i] = "idle"]
    /\ messages' = [messages EXCEPT ![i] = NilState]
    /\ state' = [state EXCEPT ![i] = NilState]
    /\ currentNode' = [currentNode EXCEPT ![i] = ""]
    /\ node' = [node EXCEPT ![i] = ZeroNode]
    /\ calls' = [calls EXCEPT ![i] = << >>]
    /\ ret' = [ret EXCEPT ![i] = NoReturn]
    /\ ctx' = [ctx EXCEPT ![i] = Background]
    /\ onEntry' = [onEntry EXCEPT ![i] = NoEntry]
    /\ UNCHANGED <<graph, compileRet, runnable, lastCall>>

\* ------------------------------------------------------------------------
\* Specification: one caller builds, compiles and invokes
\* ------------------------------------------------------------------------

\* The caller of the tests and the example builds the graph, compiles and
\* then invokes on one goroutine: its builder calls and its Compile are
\* made while it is not inside Invoke (AllIdle). The builder itself checks
\* nothing of the kind.
Next ==
    \/ AllIdle /\ \E in \in NodeInputs : AddNode(in[1], in[2])
    \/ AllIdle /\ \E in \in EdgeInputs : AddEdge(in[1], in[2])
    \/ AllIdle /\ \E name \in EntryInputs : SetEntryPoint(name)
    \/ AllIdle /\ Compile
    \/ \E r \in Receivers, msgs \in InputMessages :
          InvokeStart(MainGoroutine, r, Background, msgs)
    \/ LookupNode(MainGoroutine)
    \/ CallFunction(MainGoroutine)
    \/ FindNext(MainGoroutine)
    \/ Discard(MainGoroutine)

Spec == Init /\ [][Next]_vars

\* ------------------------------------------------------------------------
\* Specification: one caller whose goroutine keeps running
\* ------------------------------------------------------------------------

\* The same program when the goroutine that called Invoke keeps running:
\* the loop of Invoke has no blocking operation, so a step of it that can
\* be taken is eventually taken.
InvokeStep(i) == LookupNode(i) \/ CallFunction(i) \/ FindNext(i)

FairNodeInputs ==
    {<<"node1", "appendNode1">>, <<"node1", "nodeError">>,
     <<"node2", "appendNode2">>, <<END, "identity">>}

FairEdgeInputs ==
    {<<"node1", "node2">>, <<"node2", END>>, <<"node2", "node1">>,
     <<END, "node1">>}

FairEntryInputs == {"", "node1", "node2", END}

NextFair ==
    \/ AllIdle /\ \E in \in FairNodeInputs : AddNode(in[1], in[2])
    \/ AllIdle /\ \E in \in FairEdgeInputs : AddEdge(in[1], in[2])
    \/ AllIdle /\ \E name \in FairEntryInputs : SetEntryPoint(name)
    \/ AllIdle /\ Compile
    \/ \E msgs \in InputMessages : InvokeStart(MainGoroutine, "g", Background, msgs)
    \/ LookupNode(MainGoroutine)
    \/ CallFunction(MainGoroutine)
    \/ FindNext(MainGoroutine)
    \/ Discard(MainGoroutine)

SpecFair == Init /\ [][NextFair]_vars /\ WF_vars(InvokeStep(MainGoroutine))

\* ------------------------------------------------------------------------
\* Specification: the graph is built and compiled, then several goroutines
\* call Invoke on the one Runnable at the same time
\* ------------------------------------------------------------------------

ConcurrentNodeInputs ==
    {<<"node1", "appendNode1">>, <<"node2", "appendNode2">>,
     <<"node2", "nodeError">>, <<END, "identity">>}

ConcurrentEdgeInputs == {<<"node1", "node2">>, <<"node2", END>>}

ConcurrentEntryInputs == {"", "node1"}

NextConcurrent ==
    \/ AllIdle /\ \E in \in ConcurrentNodeInputs : AddNode(in[1], in[2])
    \/ AllIdle /\ \E in \in ConcurrentEdgeInputs : AddEdge(in[1], in[2])
    \/ AllIdle /\ \E name \in ConcurrentEntryInputs : SetEntryPoint(name)
    \/ AllIdle /\ Compile
    \/ \E i \in Goroutines :
          \/ \E msgs \in InputMessages : InvokeStart(i, "g", Background, msgs)
          \/ LookupNode(i)
          \/ CallFunction(i)
          \/ FindNext(i)
          \/ Discard(i)

SpecConcurrent == Init /\ [][NextConcurrent]_vars

\* ------------------------------------------------------------------------
\* Specification: one caller, node functions that return the engine's own
\* errors or look at ctx, and Invoke called with a live or a cancelled ctx
\* ------------------------------------------------------------------------

CallbackNodeInputs ==
    {<<"node1", "appendNode1">>, <<"node1", "returnsErrNodeNotFound">>,
     <<"node1", "honoursCancel">>,
     <<"node2", "appendNode2">>, <<"node2", "wrapsErrNoOutgoingEdge">>,
     <<END, "identity">>}

CallbackEdgeInputs == {<<"node1", "node2">>, <<"node2", END>>, <<"node1", END>>}

CallbackEntryInputs == {"", "node1", "node2"}

Contexts == {Background, Cancelled}

NextCallbacks ==
    \/ AllIdle /\ \E in \in CallbackNodeInputs : AddNode(in[1], in[2])
    \/ AllIdle /\ \E in \in CallbackEdgeInputs : AddEdge(in[1], in[2])
    \/ AllIdle /\ \E name \in CallbackEntryInputs : SetEntryPoint(name)
    \/ AllIdle /\ Compile
    \/ \E c \in Contexts, msgs \in InputMessages : InvokeStart(MainGoroutine, "g", c, msgs)
    \/ LookupNode(MainGoroutine)
    \/ CallFunction(MainGoroutine)
    \/ FindNext(MainGoroutine)
    \/ Discard(MainGoroutine)

SpecCallbacks == Init /\ [][NextCallbacks]_vars

\* ------------------------------------------------------------------------
\* Specification: one caller, and node functions that hold the builder and
\* call it while Invoke is running them
\* ------------------------------------------------------------------------

ReentrantNodeInputs ==
    {<<"node1", "appendNode1">>, <<"node2", "appendNode2">>, <<END, "identity">>}

ReentrantEdgeInputs == {<<"node1", END>>, <<"node1", "node2">>, <<"node2", END>>}

ReentrantEntryInputs == {"", "node1", "node2"}

\* A builder call can be made by the caller between its Invokes, and by
\* the node function Invoke is in the middle of calling: the function runs
\* on Invoke's goroutine, so the call races with nothing.
CallerOrNodeFunction == AllIdle \/ pc[MainGoroutine] = "call"

NextReentrant ==
    \/ CallerOrNodeFunction /\ \E in \in ReentrantNodeInputs : AddNode(in[1], in[2])
    \/ CallerOrNodeFunction /\ \E in \in ReentrantEdgeInputs : AddEdge(in[1], in[2])
    \/ CallerOrNodeFunction /\ \E name \in ReentrantEntryInputs : SetEntryPoint(name)
    \/ CallerOrNodeFunction /\ Compile
    \/ \E msgs \in InputMessages : InvokeStart(MainGoroutine, "g", Background, msgs)
    \/ LookupNode(MainGoroutine)
    \/ CallFunction(MainGoroutine)
    \/ FindNext(MainGoroutine)
    \/ Discard(MainGoroutine)

SpecReentrant == Init /\ [][NextReentrant]_vars

\* errors.Is(err, target): err or an error it wraps, at any depth, is target.
RECURSIVE Is(_, _)
Is(err, target) ==
    \/ err = target
    \/ /\ err.Wraps # << >>
       /\ Is(err.Wraps[1], target)

TypeOK ==
    /\ DOMAIN nodes \subseteq NodeNames
    /\ Len(edges) <= MaxEdges
    /\ entryPoint \in EntryInputs
    /\ \A i \in Goroutines : pc[i] \in {"idle", "lookup", "call", "edge", "done", "panic"}
    /\ runnable \in Receivers
    /\ \A i \in Goroutines : onEntry[i].builderCalls \in BOOLEAN

\* ------------------------------------------------------------------------
\* Vocabulary of the properties
\* ------------------------------------------------------------------------

\* The names of the nodes whose functions were called, in call order.
CalledNames(i) == [k \in 1..Len(calls[i]) |-> calls[i][k].name]

Registered(name) == name \in DOMAIN nodes

\* Invoke was called by goroutine i on a Runnable and is running or has
\* returned.
Started(i) == pc[i] \in {"lookup", "call", "edge", "done"}

HasEdgeFrom(es, name) == \E k \in 1..Len(es) : es[k].From = name

\* The To of the edge from name that AddEdge registered first.
FirstRegisteredTo(es, name) ==
    LET S == {k \in 1..Len(es) : es[k].From = name}
    IN es[CHOOSE k \in S : \A j \in S : k <= j].To

\* The names met when starting at n and following first-registered edges:
\* it stops at END, at a name that is not registered, and at a name
\* without an edge.
RECURSIVE PathFrom(_, _, _, _)
PathFrom(ns, es, n, fuel) ==
    IF fuel = 0 THEN << >>
    ELSE IF n = END \/ n \notin DOMAIN ns \/ ~HasEdgeFrom(es, n) THEN <<n>>
    ELSE <<n>> \o PathFrom(ns, es, FirstRegisteredTo(es, n), fuel - 1)

\* The functions registered under the names of path p, applied left to
\* right to s.
RECURSIVE Compose(_, _, _)
Compose(ns, p, s) ==
    IF p = << >> THEN s
    ELSE Compose(ns, Tail(p), Apply(ns[Head(p)].Function, s).state)

\* Every name on p is registered and its function succeeds.
AllSucceed(ns, p) ==
    \A k \in 1..Len(p) :
        /\ p[k] \in DOMAIN ns
        /\ ns[p[k]].Function # "nodeError"

Finished(i) == pc[i] = "done"

HumanInput == <<TextParts("human", "Input")>>

HumanQuestion == <<TextParts("human", "what is 1+1?")>>

\* ------------------------------------------------------------------------
\* C1
\* ------------------------------------------------------------------------

\* The path of the graph as it stands, when it ends at a registered END
\* and every function on it succeeds.
LinearPathOK ==
    LET p == PathFrom(nodes, edges, entryPoint, MaxCalls)
    IN /\ p # << >>
       /\ p[Len(p)] = END
       /\ AllSucceed(nodes, p)

\* C1: on a graph whose path from the entry point reaches a registered END
\* through registered nodes whose functions all succeed, a finished Invoke
\* has called the functions of exactly that path in that order, the first
\* with the input and each next one with what the previous one returned,
\* and has returned their left-to-right composition applied to the input.
C1_LinearDeterminism ==
    \A i \in Goroutines :
        (Finished(i) /\ LinearPathOK) =>
            LET p == PathFrom(nodes, edges, entryPoint, MaxCalls)
            IN /\ CalledNames(i) = p
               /\ \A k \in 1..Len(calls[i]) :
                     /\ calls[i][k].fn = nodes[p[k]].Function
                     /\ calls[i][k].arg =
                           IF k = 1 THEN messages[i]
                           ELSE Apply(calls[i][k - 1].fn, calls[i][k - 1].arg).state
               /\ ret[i] = [state |-> Compose(nodes, p, messages[i]), err |-> NoError]

\* A finished Invoke on node1 -> node2 -> END with END registered.
C1_Witness ==
    /\ Finished(MainGoroutine)
    /\ LinearPathOK
    /\ PathFrom(nodes, edges, entryPoint, MaxCalls) = <<"node1", "node2", END>>
    /\ nodes["node1"].Function = "appendNode1"
    /\ messages[MainGoroutine] = HumanInput
    /\ ret[MainGoroutine].state =
          <<TextParts("human", "Input"), TextParts("ai", "Node 1"),
            TextParts("ai", "Node 2")>>

\* ------------------------------------------------------------------------
\* C2
\* ------------------------------------------------------------------------

\* The graph of the test case "Simple graph".
SimpleGraph ==
    /\ DOMAIN nodes = {"node1", "node2"}
    /\ nodes["node1"].Function = "appendNode1"
    /\ nodes["node2"].Function = "appendNode2"
    /\ edges = <<Edge("node1", "node2"), Edge("node2", END)>>
    /\ entryPoint = "node1"

\* C2: when traversal has followed an edge to END and no node is registered
\* under END, Invoke ends without error and returns the state the last node
\* produced; on the graph of "Simple graph" with input [Human:"Input"] that
\* is [Human:"Input", AI:"Node 1", AI:"Node 2"].
C2_UnregisteredEndSucceeds ==
    \A i \in Goroutines :
        /\ (Finished(i) /\ calls[i] # << >> /\ currentNode[i] = END
               /\ ~Registered(END)) =>
              /\ ret[i].err = NoError
              /\ ret[i].state = state[i]
        /\ (Finished(i) /\ SimpleGraph /\ messages[i] = HumanInput) =>
              ret[i] = [state |-> <<TextParts("human", "Input"),
                                    TextParts("ai", "Node 1"),
                                    TextParts("ai", "Node 2")>>,
                        err |-> NoError]

\* ------------------------------------------------------------------------
\* C3
\* ------------------------------------------------------------------------

\* The graph of the test case "Conditional edge - condition for edge
\* fulfilled" as far as the builder can record it: its three nodes, its two
\* static edges and its entry point.
ConditionalTestGraph ==
    /\ DOMAIN nodes = {"node1", "node2", "calculator"}
    /\ nodes["node1"].Function = "appendUseCalculator"
    /\ nodes["node2"].Function = "appendNode2"
    /\ nodes["calculator"].Function = "appendCalculator"
    /\ edges = <<Edge("node2", END), Edge("calculator", END)>>
    /\ entryPoint = "node1"

\* C3: on the test's graph, where node1's text contains "calculator", the
\* node invoked after node1 is the one the routing function names, so the
\* functions called are node1's and calculator's, node2's is never called,
\* and Invoke returns three messages without error.
C3_ConditionalRouting ==
    \A i \in Goroutines :
        (Finished(i) /\ ConditionalTestGraph /\ messages[i] = HumanQuestion) =>
            /\ CalledNames(i) = <<"node1", "calculator">>
            /\ ret[i].err = NoError
            /\ Len(ret[i].state) = 3

\* ------------------------------------------------------------------------
\* C4
\* ------------------------------------------------------------------------

EntryPointNotSetReturn == [runnable |-> NilRunnable, err |-> ErrEntryPointNotSet]

\* C4: whatever nodes and edges are registered, a Compile that runs while
\* the entry point is unset returns (nil, ErrEntryPointNotSet) and calls no
\* node function; that error never comes with a Runnable.
C4_EntryPointRequired ==
    /\ [](compileRet.err = ErrEntryPointNotSet => compileRet.runnable = NilRunnable)
    /\ [][(entryPoint = "" /\ compileRet' # compileRet) =>
             (compileRet' = EntryPointNotSetReturn /\ calls' = calls)]_vars

\* Compile has failed on a builder holding nodes and edges but no entry point.
C4_Witness ==
    /\ compileRet = EntryPointNotSetReturn
    /\ entryPoint = ""
    /\ DOMAIN nodes # {}
    /\ edges # << >>

\* ------------------------------------------------------------------------
\* C5
\* ------------------------------------------------------------------------

NodeNotFoundError(name) == Errorf("%w: %s", name, ErrNodeNotFound)

\* C5: Compile succeeds whenever an entry point is set, whether or not it
\* or any edge target is registered; an Invoke whose cursor reaches a name
\* that is not registered returns (nil, NodeNotFound(that name)), having
\* called the functions of exactly the nodes before it on the path and none
\* for the missing name, and NodeNotFound is returned in no other case.
C5_MissingNode ==
    /\ [][(entryPoint # "" /\ compileRet' # compileRet) =>
             compileRet' = [runnable |-> "g", err |-> NoError]]_vars
    /\ [](\A i \in Goroutines :
            /\ (Finished(i) /\ ~Registered(currentNode[i])) =>
                  LET p == PathFrom(nodes, edges, entryPoint, MaxCalls + 1)
                  IN /\ ret[i] = [state |-> NilState,
                                  err |-> NodeNotFoundError(currentNode[i])]
                     /\ p = CalledNames(i) \o <<currentNode[i]>>
                     /\ \A k \in 1..Len(calls[i]) : calls[i][k].name # currentNode[i]
            /\ (Finished(i) /\ ret[i].err.Wraps = <<ErrNodeNotFound>>) =>
                  /\ ~Registered(currentNode[i])
                  /\ ret[i].err.Name = currentNode[i]
            /\ Started(i) => runnable = "g")

\* node1 ran, its edge led to node2, which is not registered.
C5_Witness ==
    /\ Finished(MainGoroutine)
    /\ ret[MainGoroutine].err = NodeNotFoundError("node2")
    /\ CalledNames(MainGoroutine) = <<"node1">>
    /\ ~Registered("node2")
    /\ compileRet = [runnable |-> "g", err |-> NoError]

\* ------------------------------------------------------------------------
\* C6
\* ------------------------------------------------------------------------

NoOutgoingEdgeError(name) == Errorf("%w: %s", name, ErrNoOutgoingEdge)

\* The call made last succeeded.
LastCallSucceeded(i) ==
    /\ calls[i] # << >>
    /\ LET c == calls[i][Len(calls[i])]
       IN Apply(c.fn, c.arg).err = NoError

LastCalled(i) == calls[i][Len(calls[i])].name

\* C6: when the function of a registered node other than END has returned
\* successfully and no edge has that node as From, Invoke returns
\* (nil, NoOutgoingEdge(that node)); NoOutgoingEdge always names the node
\* whose function ran last, and is returned in no other case.
C6_DeadEnd ==
    \A i \in Goroutines :
        /\ (/\ Finished(i)
            /\ LastCallSucceeded(i)
            /\ LastCalled(i) # END
            /\ ~HasEdgeFrom(edges, LastCalled(i))) =>
              ret[i] = [state |-> NilState, err |-> NoOutgoingEdgeError(LastCalled(i))]
        /\ (Finished(i) /\ ret[i].err.Wraps = <<ErrNoOutgoingEdge>>) =>
              /\ LastCallSucceeded(i)
              /\ ret[i].err.Name = LastCalled(i)
              /\ LastCalled(i) # END
              /\ Registered(LastCalled(i))
              /\ ~HasEdgeFrom(edges, LastCalled(i))

\* node1 ran, its edge led to node2, node2 ran and has no edge.
C6_Witness ==
    /\ Finished(MainGoroutine)
    /\ CalledNames(MainGoroutine) = <<"node1", "node2">>
    /\ ret[MainGoroutine].err = NoOutgoingEdgeError("node2")
    /\ HasEdgeFrom(edges, "node1")

\* ------------------------------------------------------------------------
\* C7
\* ------------------------------------------------------------------------

NodeExecutionError(name, underlying) == Errorf("error in node %s: %w", name, underlying)

\* C7: a call whose function returned an error is the last call of its
\* invocation, and Invoke has returned nil together with an error that
\* names the node and wraps the function's error.
C7_FailureShortCircuits ==
    \A i \in Goroutines :
        \A k \in 1..Len(calls[i]) :
            LET r == Apply(calls[i][k].fn, calls[i][k].arg)
            IN r.err # NoError =>
                  /\ k = Len(calls[i])
                  /\ Finished(i)
                  /\ ret[i] = [state |-> NilState,
                               err |-> NodeExecutionError(calls[i][k].name, r.err)]

\* END's function failed after node1 ran; END has an edge back to node1.
C7_Witness ==
    /\ Finished(MainGoroutine)
    /\ CalledNames(MainGoroutine) = <<"node1", END>>
    /\ ret[MainGoroutine].err = NodeExecutionError(END, NodeFailure)
    /\ HasEdgeFrom(edges, END)

\* ------------------------------------------------------------------------
\* C8
\* ------------------------------------------------------------------------

\* C8: a call of END's function is the last call of its invocation (so there
\* is at most one), Invoke has returned after it, with the function's
\* result when it succeeded, and no edge is ever looked up for END, even
\* when edges from END are registered.
C8_EndIsTerminal ==
    \A i \in Goroutines :
        /\ pc[i] = "edge" => currentNode[i] # END
        /\ \A k \in 1..Len(calls[i]) :
              calls[i][k].name = END =>
                 LET r == Apply(calls[i][k].fn, calls[i][k].arg)
                 IN /\ k = Len(calls[i])
                    /\ Finished(i)
                    /\ r.err = NoError => ret[i] = [state |-> r.state, err |-> NoError]

\* Invoke succeeded at END although an edge END -> node1 is registered.
C8_Witness ==
    /\ Finished(MainGoroutine)
    /\ CalledNames(MainGoroutine) = <<"node1", END>>
    /\ ret[MainGoroutine].err = NoError
    /\ HasEdgeFrom(edges, END)
    /\ Registered("node1")

\* ------------------------------------------------------------------------
\* C9
\* ------------------------------------------------------------------------

\* C9: once an edge from a node is registered, no step changes the To of
\* the first-registered edge from that node, and every edge resolution
\* moves the cursor to that To.
C9_FirstEdgeWins ==
    /\ [][edges' # edges =>
             \A x \in NodeNames :
                HasEdgeFrom(edges, x) =>
                   /\ HasEdgeFrom(edges', x)
                   /\ FirstRegisteredTo(edges', x) = FirstRegisteredTo(edges, x)]_vars
    /\ [][\A i \in Goroutines :
             (pc[i] = "edge" /\ pc'[i] = "lookup") =>
                currentNode'[i] = FirstRegisteredTo(edges, currentNode[i])]_vars

\* node1 has two edges; traversal took the one registered first.
C9_Witness ==
    /\ edges = <<Edge("node1", "node2"), Edge("node1", END)>>
    /\ Finished(MainGoroutine)
    /\ CalledNames(MainGoroutine) = <<"node1", "node2">>

\* ------------------------------------------------------------------------
\* C10
\* ------------------------------------------------------------------------

\* What Invoke returns on the graph (ns, es, entry) for input s when it
\* starts at n: the big-step reading of the traversal.
StillRunning == [state |-> NilState, err |-> ErrorsNew("still running")]

RECURSIVE Run(_, _, _, _, _)
Run(ns, es, n, s, fuel) ==
    IF fuel = 0 THEN StillRunning
    ELSE IF n \notin DOMAIN ns
    THEN [state |-> NilState, err |-> NodeNotFoundError(n)]
    ELSE LET r == Apply(ns[n].Function, s)
         IN IF r.err # NoError
            THEN [state |-> NilState, err |-> NodeExecutionError(n, r.err)]
            ELSE IF n = END THEN [state |-> r.state, err |-> NoError]
            ELSE IF ~HasEdgeFrom(es, n)
            THEN [state |-> NilState, err |-> NoOutgoingEdgeError(n)]
            ELSE Run(ns, es, FirstRegisteredTo(es, n), r.state, fuel - 1)

Outcome(ns, es, entry, s) == Run(ns, es, entry, s, MaxCalls + 1)

\* C10 as stated: once Compile has succeeded, nothing changes the nodes,
\* the edges or the entry point that Invoke uses.
C10_NeverMutated ==
    [][runnable = "g" => graph' = graph]_vars

\* C10 as amended: after Compile has succeeded, the nodes, edges and entry
\* point Invoke uses change only by a builder call, never by Compile or by
\* a step of Invoke; Invoke starts from the builder's graph as it stands
\* when Invoke is called, later registrations included; and an Invoke
\* during which no builder call is made returns the outcome of that graph.
\* (A builder call made while an Invoke runs, by the node function it is
\* calling, is read by the steps of that Invoke that follow.)
C10_SharedWithBuilder ==
    /\ [][(runnable = "g" /\ graph' # graph) =>
             UNCHANGED <<compileRet, runnable, invocation>>]_vars
    /\ [][\A i \in Goroutines :
             (pc[i] = "idle" /\ pc'[i] = "lookup") =>
                /\ currentNode'[i] = entryPoint
                /\ onEntry'[i] = [graph |-> GraphNow, builderCalls |-> FALSE]]_vars
    /\ [](\A i \in Goroutines :
             (Finished(i) /\ ~onEntry[i].builderCalls) =>
                ret[i] = Outcome(onEntry[i].graph.nodes, onEntry[i].graph.edges,
                                 onEntry[i].graph.entryPoint, messages[i]))

\* SetEntryPoint("") was called after Compile succeeded (Compile rejects an
\* empty entry point), and the Invoke that followed, with no builder call
\* made during it, saw it.
C10_Witness ==
    /\ Finished(MainGoroutine)
    /\ runnable = "g"
    /\ ~onEntry[MainGoroutine].builderCalls
    /\ onEntry[MainGoroutine].graph.entryPoint = ""
    /\ entryPoint = ""
    /\ ret[MainGoroutine].err = NodeNotFoundError("")

\* ------------------------------------------------------------------------
\* C11
\* ------------------------------------------------------------------------

\* The four ways Invoke ends.
Succeeded(i) == Finished(i) /\ ret[i].err = NoError

FailedNodeNotFound(i) == Finished(i) /\ ret[i].err = NodeNotFoundError(currentNode[i])

FailedNoOutgoingEdge(i) == Finished(i) /\ ret[i].err = NoOutgoingEdgeError(currentNode[i])

FailedInNode(i) ==
    /\ Finished(i)
    /\ calls[i] # << >>
    /\ ret[i].err.Text = "error in node %s: %w"
    /\ ret[i].err.Name = LastCalled(i)

\* C11: no step of Invoke, from its start to any of its four returns,
\* changes the node map, the edge list or the entry point; so the result of
\* each Invoke is the one outcome the unchanged graph has for its input.
C11_InvokeLeavesGraph ==
    /\ [][(\E i \in Goroutines : pc'[i] # pc[i]) => graph' = graph]_vars
    /\ [][\A i \in Goroutines :
             (pc[i] # "done" /\ pc'[i] = "done") =>
                /\ graph' = graph
                /\ ret'[i] = Outcome(nodes', edges', entryPoint', messages'[i])
                /\ ret'[i] = Outcome(nodes, edges, entryPoint, messages[i])]_vars

\* An Invoke has returned NoOutgoingEdge after two calls, the graph intact.
C11_Witness ==
    /\ FailedNoOutgoingEdge(MainGoroutine)
    /\ Len(calls[MainGoroutine]) = 2
    /\ Len(edges) = MaxEdges
    /\ \A k \in 1..2 : Registered(calls[MainGoroutine][k].name)

\* ------------------------------------------------------------------------
\* C12
\* ------------------------------------------------------------------------

\* The locals of goroutine j inside Invoke.
Locals(j) == <<pc[j], messages[j], state[j], currentNode[j], node[j], calls[j],
               ret[j], ctx[j]>>

\* C12: with several Invokes in progress on the one Runnable, a step of one
\* goroutine changes no local of another; every function call of a
\* goroutine gets that goroutine's own input or the result of its own
\* previous call; and every goroutine returns the outcome its input has on
\* the graph when run alone.
C12_ConcurrentInvokes ==
    /\ [][\A i, j \in Goroutines :
             (i # j /\ pc'[i] # pc[i]) => Locals(j)' = Locals(j)]_vars
    /\ [](\A i \in Goroutines :
             /\ \A k \in 1..Len(calls[i]) :
                   calls[i][k].arg =
                      IF k = 1 THEN messages[i]
                      ELSE Apply(calls[i][k - 1].fn, calls[i][k - 1].arg).state
             /\ Finished(i) =>
                   ret[i] = Outcome(nodes, edges, entryPoint, messages[i]))

\* Two Invokes with different inputs are in progress at the same time, at
\* different nodes of the graph.
C12_Witness ==
    /\ pc["g1"] = "call"
    /\ Len(calls["g1"]) = 2
    /\ currentNode["g1"] = END
    /\ pc["g2"] = "edge"
    /\ Len(calls["g2"]) = 1
    /\ currentNode["g2"] = "node1"
    /\ messages["g1"] # messages["g2"]

\* ------------------------------------------------------------------------
\* C13
\* ------------------------------------------------------------------------

\* What the function called last returned.
LastResult(i) ==
    LET c == calls[i][Len(calls[i])]
    IN NodeCall(c.fn, c.ctx, c.arg)

\* Invoke ended because the function called last returned an error.
LastCallFailed(i) ==
    /\ Finished(i)
    /\ calls[i] # << >>
    /\ LastResult(i).err # NoError

\* Invoke ended because the cursor named a node that is not registered.
CursorUnregistered(i) == Finished(i) /\ ~Registered(currentNode[i])

\* Invoke ended because a node other than END ran successfully and no edge
\* leaves it.
DeadEnd(i) ==
    /\ Finished(i)
    /\ calls[i] # << >>
    /\ LastResult(i).err = NoError
    /\ LastCalled(i) = currentNode[i]
    /\ currentNode[i] # END
    /\ ~HasEdgeFrom(edges, currentNode[i])

\* C13 as stated: for every failing Invoke, whatever error a node function
\* returned, errors.Is(err, ErrNodeNotFound) holds exactly when the cursor
\* named an unregistered node, errors.Is(err, ErrNoOutgoingEdge) exactly at
\* a dead end, and a node execution error matches neither.
C13_KindsByIdentity ==
    \A i \in Goroutines :
        (Finished(i) /\ ret[i].err # NoError) =>
            /\ Is(ret[i].err, ErrNodeNotFound) <=> CursorUnregistered(i)
            /\ Is(ret[i].err, ErrNoOutgoingEdge) <=> DeadEnd(i)
            /\ LastCallFailed(i) =>
                  /\ ~Is(ret[i].err, ErrNodeNotFound)
                  /\ ~Is(ret[i].err, ErrNoOutgoingEdge)

\* C13 as amended: a node execution error wraps the function's error, so it
\* matches every sentinel that error is or wraps.  errors.Is(err,
\* ErrNodeNotFound) holds exactly when the cursor named an unregistered node
\* or the failing function's error is or wraps ErrNodeNotFound, and
\* likewise for ErrNoOutgoingEdge and a dead end; a node execution error
\* matches neither exactly when the function's error matches neither.
C13_KindsUpToWrapping ==
    \A i \in Goroutines :
        (Finished(i) /\ ret[i].err # NoError) =>
            /\ Is(ret[i].err, ErrNodeNotFound) <=>
                  \/ CursorUnregistered(i)
                  \/ LastCallFailed(i) /\ Is(LastResult(i).err, ErrNodeNotFound)
            /\ Is(ret[i].err, ErrNoOutgoingEdge) <=>
                  \/ DeadEnd(i)
                  \/ LastCallFailed(i) /\ Is(LastResult(i).err, ErrNoOutgoingEdge)
            /\ ~(CursorUnregistered(i) /\ DeadEnd(i))
            /\ ~(CursorUnregistered(i) /\ LastCallFailed(i))
            /\ ~(DeadEnd(i) /\ LastCallFailed(i))

\* node2 is registered, ran after node1 and returned an error wrapping
\* ErrNoOutgoingEdge: Invoke's error matches ErrNoOutgoingEdge although
\* node2 has an edge.
C13_Witness ==
    /\ LastCallFailed(MainGoroutine)
    /\ CalledNames(MainGoroutine) = <<"node1", "node2">>
    /\ HasEdgeFrom(edges, "node2")
    /\ Is(ret[MainGoroutine].err, ErrNoOutgoingEdge)
    /\ ret[MainGoroutine].err # NoOutgoingEdgeError("node2")

\* ------------------------------------------------------------------------
\* C14
\* ------------------------------------------------------------------------

\* C14: an Invoke that returns an error returns the nil state with it,
\* whatever state the nodes before the failure produced; a nil error comes
\* only with the state the function called last produced, that function
\* being END's; and once Invoke has returned, no function is called for
\* that invocation again.
C14_FailureReturnsNil ==
    /\ [](\A i \in Goroutines :
             Finished(i) =>
                /\ ret[i].err # NoError => ret[i].state = NilState
                /\ ret[i].err = NoError =>
                      /\ LastCallSucceeded(i)
                      /\ LastCalled(i) = END
                      /\ ret[i].state = LastResult(i).state
                      /\ ret[i].state = state[i])
    /\ [][\A i \in Goroutines :
             Finished(i) => (calls'[i] = calls[i] \/ pc'[i] = "idle")]_vars

\* node1 and node2 extended the state, then Invoke failed at the dead end
\* node2 and returned nil, not the extended state.
C14_Witness ==
    /\ FailedNoOutgoingEdge(MainGoroutine)
    /\ Len(calls[MainGoroutine]) = 2
    /\ Len(state[MainGoroutine]) = 3
    /\ ret[MainGoroutine].state = NilState

\* ------------------------------------------------------------------------
\* C15
\* ------------------------------------------------------------------------

\* C15: right after AddNode(name, fn), name maps to the node (name, fn),
\* whatever was registered under name before; the call has left the edge
\* list, the entry point and the nodes under other names as they were; and
\* every function Invoke calls is the one its name maps to.
C15_LastRegistrationWins ==
    /\ [](lastCall.op = "AddNode" =>
             /\ Registered(lastCall.name)
             /\ nodes[lastCall.name] = Node(lastCall.name, lastCall.fn))
    /\ [](\A i \in Goroutines : \A k \in 1..Len(calls[i]) :
             /\ Registered(calls[i][k].name)
             /\ calls[i][k].fn = nodes[calls[i][k].name].Function)
    /\ [][(lastCall'.op = "AddNode" /\ lastCall' # lastCall) =>
             /\ edges' = edges
             /\ entryPoint' = entryPoint
             /\ DOMAIN nodes' = (DOMAIN nodes) \cup {lastCall'.name}
             /\ \A n \in (DOMAIN nodes) \ {lastCall'.name} : nodes'[n] = nodes[n]]_vars

\* AddNode("node1", nodeError) has just returned on a builder that holds
\* other nodes, edges and an entry point.
C15_Witness ==
    /\ lastCall = Called("AddNode", "node1", "nodeError")
    /\ nodes["node1"].Function = "nodeError"
    /\ DOMAIN nodes = {"node1", "node2", END}
    /\ Len(edges) = MaxEdges
    /\ entryPoint = "node1"

\* ------------------------------------------------------------------------
\* C16
\* ------------------------------------------------------------------------

\* C16: a function is called only for a name found in the node map; an
\* edge is looked up only after the function succeeded and the node is not
\* END; so a failing function gives the node execution error whatever the
\* node's edges are, a failing END makes Invoke fail, and NoOutgoingEdge is
\* never returned for END.
C16_ErrorPrecedence ==
    \A i \in Goroutines :
        /\ pc[i] = "call" =>
              /\ Registered(currentNode[i])
              /\ node[i] = nodes[currentNode[i]]
        /\ pc[i] = "edge" =>
              /\ LastCallSucceeded(i)
              /\ LastCalled(i) = currentNode[i]
              /\ currentNode[i] # END
        /\ (Finished(i) /\ calls[i] # << >> /\ LastResult(i).err # NoError) =>
              /\ ret[i].err = NodeExecutionError(LastCalled(i), LastResult(i).err)
              /\ ret[i].err # NoError
              /\ LastCalled(i) = currentNode[i]
        /\ Finished(i) => ret[i].err # NoOutgoingEdgeError(END)

\* node1's function failed; node1's edge leads to node2, which is not
\* registered: the error is node1's execution error, not NodeNotFound.
C16_Witness ==
    /\ Finished(MainGoroutine)
    /\ CalledNames(MainGoroutine) = <<"node1">>
    /\ HasEdgeFrom(edges, "node1")
    /\ FirstRegisteredTo(edges, "node1") = "node2"
    /\ ~Registered("node2")
    /\ ret[MainGoroutine].err = NodeExecutionError("node1", NodeFailure)

\* ------------------------------------------------------------------------
\* C17
\* ------------------------------------------------------------------------

\* The first-registered edges lead from the entry point into a cycle: a
\* name comes back on the path before END, an unregistered name or a dead
\* end is met, and every function on the path succeeds.
EntersCycle ==
    LET p == PathFrom(nodes, edges, entryPoint, Cardinality(NodeNames) + 1)
    IN /\ \E a, b \in 1..Len(p) : a < b /\ p[a] = p[b]
       /\ AllSucceed(nodes, p)

\* C17: on a graph whose path from the entry point enters a cycle of
\* registered, succeeding nodes that does not pass through END, an Invoke
\* that has started has not returned, however many functions it has called:
\* it is at a lookup, a call or an edge scan, and the functions it has
\* called are those of the path, in order, the cycle's nodes again and
\* again.
C17_CycleNeverReturns ==
    \A i \in Goroutines :
        (EntersCycle /\ Started(i)) =>
            /\ ~Finished(i)
            /\ pc[i] \in {"lookup", "call", "edge"}
            /\ CalledNames(i) =
                  SubSeq(PathFrom(nodes, edges, entryPoint, MaxCalls + 1),
                         1, Len(calls[i]))
            /\ \A k \in 1..Len(calls[i]) :
                  Apply(calls[i][k].fn, calls[i][k].arg).err = NoError

\* Invoke has gone round the cycle node1 -> node2 -> node1 until the call
\* bound and is about to call again.
C17_Witness ==
    /\ EntersCycle
    /\ Len(calls[MainGoroutine]) = MaxCalls
    /\ calls[MainGoroutine][3].name = calls[MainGoroutine][1].name
    /\ calls[MainGoroutine][2].name # calls[MainGoroutine][1].name
    /\ pc[MainGoroutine] = "call"

\* ------------------------------------------------------------------------
\* C18
\* ------------------------------------------------------------------------

\* The path of first-registered edges from the entry point repeats no name.
PathRepeatsNoName ==
    LET p == PathFrom(nodes, edges, entryPoint, Cardinality(NodeNames) + 1)
    IN \A a, b \in 1..Len(p) : a < b => p[a] # p[b]

\* How many of the four outcomes the finished Invoke of i has.
OutcomeCount(i) ==
    Cardinality({o \in {"success", "notFound", "noEdge", "inNode"} :
        \/ o = "success" /\ Succeeded(i) /\ currentNode[i] = END
        \/ o = "notFound" /\ FailedNodeNotFound(i)
        \/ o = "noEdge" /\ FailedNoOutgoingEdge(i)
        \/ o = "inNode" /\ FailedInNode(i)})

\* C18: when the path of first-registered edges from the entry point
\* repeats no name, an Invoke that has started calls no name twice, makes
\* at most as many calls as there are registered nodes, ends in exactly one
\* of the four outcomes when it ends, and (its node functions returning and
\* its goroutine running) does end.
C18_AcyclicTerminates ==
    /\ [](\A i \in Goroutines :
            (PathRepeatsNoName /\ Started(i)) =>
                /\ \A a, b \in 1..Len(calls[i]) :
                      a < b => calls[i][a].name # calls[i][b].name
                /\ \A k \in 1..Len(calls[i]) : Registered(calls[i][k].name)
                /\ Len(calls[i]) <= Cardinality(DOMAIN nodes)
                /\ Finished(i) => OutcomeCount(i) = 1)
    /\ ((PathRepeatsNoName /\ Started(MainGoroutine))
            ~> Finished(MainGoroutine))

\* Invoke has ended with NoOutgoingEdge after calling both registered nodes
\* of an acyclic graph, once each.
C18_Witness ==
    /\ PathRepeatsNoName
    /\ FailedNoOutgoingEdge(MainGoroutine)
    /\ Len(calls[MainGoroutine]) = 2
    /\ Cardinality(DOMAIN nodes) = 2

\* ------------------------------------------------------------------------
\* C19
\* ------------------------------------------------------------------------

\* What Compile returns as a function of the entry point alone.
CompileOutcome(entry) ==
    IF entry = "" THEN EntryPointNotSetReturn
    ELSE [runnable |-> "g", err |-> NoError]

\* C19: right after SetEntryPoint(name) the entry point is name, whatever
\* it was before (the empty string included); every Compile returns what the
\* entry point alone decides, success exactly when it is non-empty, whatever
\* nodes and edges are registered, and leaves the builder as it was; so a
\* Compile that follows SetEntryPoint(name) succeeds exactly when name is
\* non-empty.
C19_CompileByEntryPoint ==
    /\ [](lastCall.op = "SetEntryPoint" => entryPoint = lastCall.name)
    /\ [](compileRet.runnable # NilRunnable <=> compileRet = [runnable |-> "g", err |-> NoError])
    /\ [][compileRet' # compileRet =>
             /\ compileRet' = CompileOutcome(entryPoint)
             /\ (compileRet'.err = NoError <=> entryPoint # "")
             /\ graph' = graph]_vars
    /\ [][(lastCall.op = "SetEntryPoint" /\ lastCall' = NoCall
             /\ UNCHANGED <<graph, invocation>>) =>
             compileRet' = CompileOutcome(lastCall.name)]_vars

\* Compile succeeded on a builder with no node and a dangling edge, and
\* SetEntryPoint("") has then overwritten the non-empty name.
C19_Witness ==
    /\ lastCall = Called("SetEntryPoint", "", "")
    /\ entryPoint = ""
    /\ compileRet.runnable = "g"
    /\ DOMAIN nodes = {}
    /\ edges # << >>

\* ------------------------------------------------------------------------
\* C20
\* ------------------------------------------------------------------------

\* The names whose functions Invoke calls on the graph (ns, es) for input s
\* when it starts at n and no function looks at ctx.
RECURSIVE Visits(_, _, _, _, _)
Visits(ns, es, n, s, fuel) ==
    IF fuel = 0 \/ n \notin DOMAIN ns THEN << >>
    ELSE LET r == Apply(ns[n].Function, s)
         IN IF r.err # NoError \/ n = END \/ ~HasEdgeFrom(es, n) THEN <<n>>
            ELSE <<n>> \o Visits(ns, es, FirstRegisteredTo(es, n), r.state, fuel - 1)

\* No function called so far by the Invoke of i has reacted to ctx: each
\* returned what it returns under a live context.
NoReaction(i) ==
    \A k \in 1..Len(calls[i]) :
        NodeCall(calls[i][k].fn, calls[i][k].ctx, calls[i][k].arg) =
            Apply(calls[i][k].fn, calls[i][k].arg)

\* C20: every node function called during an Invoke receives the ctx that
\* Invoke was given; and as long as no called function has itself reacted
\* to ctx, an Invoke calls the names a live-context Invoke calls, in the
\* same order, and returns what it returns, whether its ctx is live or
\* already cancelled.
C20_ContextOpaque ==
    \A i \in Goroutines :
        /\ \A k \in 1..Len(calls[i]) : calls[i][k].ctx = ctx[i]
        /\ (Started(i) /\ NoReaction(i)) =>
              /\ CalledNames(i) =
                    SubSeq(Visits(nodes, edges, entryPoint, messages[i], MaxCalls + 1),
                           1, Len(calls[i]))
              /\ Finished(i) =>
                    /\ CalledNames(i) =
                          Visits(nodes, edges, entryPoint, messages[i], MaxCalls + 1)
                    /\ ret[i] = Outcome(nodes, edges, entryPoint, messages[i])

\* An Invoke given a cancelled ctx has run to END through two nodes, on a
\* graph that also holds a function honouring cancellation, not reached.
C20_Witness ==
    /\ ctx[MainGoroutine] = Cancelled
    /\ Succeeded(MainGoroutine)
    /\ Len(calls[MainGoroutine]) = 2
    /\ calls[MainGoroutine][1].ctx = Cancelled
    /\ \E n \in DOMAIN nodes : nodes[n].Function = "honoursCancel"

====
